---- MODULE Spec2Model ----
(***************************************************************************)
(* A model of impeller/compiler/reflector.cc: the Reflector constructor,   *)
(* GenerateTemplateArguments, the struct layout builder                    *)
(* (ReflectStructDefinition / ReadStructMembers), the per-vertex struct    *)
(* synthesis and the member namer with its process-wide counter.           *)
(*                                                                         *)
(* Every Reflector under construction is one "invocation" t \in Threads;   *)
(* the only state invocations share is sUnnamedMembersID.                  *)
(***************************************************************************)
EXTENDS Integers, Sequences, FiniteSets, TLC

VARIABLES
    module,             \* [Threads -> the ParsedIR / CompilerMSL an invocation is given]
    pc,                 \* [Threads -> position of the invocation in the constructor]
    obj,                \* [Threads -> the Reflector's members]
    gta,                \* [Threads -> locals of GenerateTemplateArguments]
    rsm,                \* [Threads -> locals of ReflectStructDefinition / ReadStructMembers]
    got,                \* [Threads -> what the three getters returned]
    sUnnamedMembersID,  \* the function-local static std::atomic_size_t
    synthesized,        \* every name the synthesizing branch of GetMemberNameAtIndex returned
    lookup              \* [Threads -> a call of GetMemberNameAtIndexIfExists in flight]

vars == <<module, pc, obj, gta, rsm, got, sUnnamedMembersID, synthesized, lookup>>

-----------------------------------------------------------------------------
(* Bounds of the model. *)

\* Members of a struct type / stage inputs of a shader.
MaxMembers == 2
MaxInputs == 3

\* Frames of GetMemberNameAtIndexIfExists the stack holds before it is exhausted.
MaxStackDepth == 4
\* Length of the sequence for_each_typed_id yields.
MaxTypedIds == 3
\* size_t is 64 bits wide on the hosts the compiler is built for; TLC's integers
\* are 32 bits wide, so the model keeps size_t's wrap-around at a narrower width.
SizeTBits == 16

\* The reflector invocations of the process: two, which may run concurrently.
Threads == {1, 2}

RECURSIVE Pow2(_)
Pow2(n) == IF n = 0 THEN 1 ELSE 2 * Pow2(n - 1)

SizeTModulus == Pow2(SizeTBits)

\* Arithmetic on size_t.
SizeT(x) == x % SizeTModulus

-----------------------------------------------------------------------------
(* Host sizes the source takes with sizeof. *)

SizeofBool == 1
SizeofScalar == 4
SizeofFloat == 4
SizeofUint32 == 4
SizeofInt32 == 4
SizeofMatrix == 64
SizeofPoint == 8
SizeofVector3 == 12
SizeofVector4 == 16

-----------------------------------------------------------------------------
(* The types of a module: spirv_cross::SPIRType as far as the source reads  *)
(* it (basetype, width, vecsize, columns), and its array dimension, which   *)
(* the source never reads.                                                  *)

\* A boolean at the width SPIRV-Cross declares it with (1) and at wider ones;
\* the numeric types at 32 and 64 bits.
BooleanWidths == {1, 8, 32}
NumericTypes == {"Float", "UInt", "Int", "Double"}
NumericWidths == {32, 64}

SPIRType(b, w, v, c, a) ==
    [basetype |-> b, width |-> w, vecsize |-> v, columns |-> c, array |-> a]

ScalarTypes ==
    {SPIRType("Boolean", w, 1, 1, 0) : w \in BooleanWidths}
    \cup {SPIRType(b, w, 1, 1, 0) : b \in NumericTypes, w \in NumericWidths}
VectorTypes ==
    {SPIRType(b, w, v, 1, 0) : b \in {"Float", "Int"}, w \in NumericWidths, v \in {2, 3, 4}}
\* Matrices, alone (array 0) and in arrays of two.
MatrixTypes ==
    {SPIRType("Float", w, v, c, a) : w \in NumericWidths, v \in {3, 4}, c \in {3, 4}, a \in {0, 2}}
MemberTypes == ScalarTypes \cup VectorTypes \cup MatrixTypes

None == [has_value |-> FALSE]
Some(v) == [has_value |-> TRUE, value |-> v]

RECURSIVE SumLengths(_)
SumLengths(members) ==
    IF members = <<>> THEN 0
    ELSE members[1].byte_length + SumLengths(Tail(members))

-----------------------------------------------------------------------------
(* Pure helpers of the source. *)

TypeNameWithPaddingOfSize(size) == <<"Padding", size>>

ReadKnownScalarType(type) ==
    CASE type = "Boolean" -> Some([name |-> <<"bool">>, byte_size |-> SizeofBool])
      [] type = "Float" -> Some([name |-> <<"Scalar">>, byte_size |-> SizeofScalar])
      [] type = "UInt" -> Some([name |-> <<"uint32_t">>, byte_size |-> SizeofUint32])
      [] type = "Int" -> Some([name |-> <<"int32_t">>, byte_size |-> SizeofInt32])
      [] OTHER -> None


\* operator<< of a size_t: its decimal digits.
Digit(d) == <<"0", "1", "2", "3", "4", "5", "6", "7", "8", "9">>[d + 1]

RECURSIVE Decimal(_)
Decimal(n) == IF n < 10 THEN <<Digit(n)>> ELSE Decimal(n \div 10) \o <<Digit(n % 10)>>

\* ir_->meta.find(parent_type.self), after following parent_type.type_alias.
\* A name is a sequence of pieces of text; the empty sequence is the empty string.
RECURSIVE GetMemberNameAtIndexIfExists(_, _, _)
GetMemberNameAtIndexIfExists(m, parent_type, index) ==
    IF parent_type.type_alias # 0
    THEN GetMemberNameAtIndexIfExists(m, m.types[parent_type.type_alias], index)
    ELSE IF parent_type.self \in DOMAIN m.meta
         THEN LET members == m.meta[parent_type.self]
              IN  IF index < Len(members) /\ members[index + 1] # <<>>
                  THEN Some(members[index + 1])
                  ELSE None
         ELSE None

\* stream << "unnamed_" << sUnnamedMembersID++ << suffix, with the value the
\* post-increment returned.
UnnamedMemberName(id, suffix) ==
    <<"unnamed_">> \o Decimal(id) \o (IF suffix = "" THEN <<>> ELSE <<suffix>>)

PostIncrementLost(id) == id

\* The value sUnnamedMembersID holds after sUnnamedMembersID++.
PostIncrement(id) == SizeT(id + 1)

VertexTypeFromInputResource(resource) ==
    LET type == resource.type
        total_size == (type.columns * type.vecsize * type.width) \div 8
        type_name ==
            IF type.basetype = "Float" /\ type.columns = 1 /\ type.vecsize = 2
               /\ type.width = SizeofFloat * 8
            THEN <<"Point">>
            ELSE IF type.basetype = "Float" /\ type.columns = 1 /\ type.vecsize = 4
                    /\ type.width = SizeofFloat * 8
            THEN <<"Vector4">>
            ELSE IF type.basetype = "Float" /\ type.columns = 1 /\ type.vecsize = 3
                    /\ type.width = SizeofFloat * 8
            THEN <<"Vector3">>
            ELSE TypeNameWithPaddingOfSize(total_size)
    IN  [type_name |-> type_name, variable_name |-> resource.name,
         byte_length |-> total_size]

CollectLocationsIgnoringDuplicates(stage_inputs, n, locations) ==
    Some({stage_inputs[k].location : k \in n .. Len(stage_inputs)} \cup locations)

\* The loop that fills std::set<uint32_t> locations; no value on a duplicate.
RECURSIVE CollectLocations(_, _, _)
CollectLocations(stage_inputs, n, locations) ==
    IF n > Len(stage_inputs) THEN Some(locations)
    ELSE IF stage_inputs[n].location \in locations THEN None
    ELSE CollectLocations(stage_inputs, n + 1, locations \cup {stage_inputs[n].location})

InputForLocationInDeclarationOrder(stage_inputs, queried_location) == queried_location + 1

\* The lambda input_for_location: the first input at the location, 0 for nullptr.
InputForLocation(stage_inputs, queried_location) ==
    LET hits == {n \in 1 .. Len(stage_inputs) : stage_inputs[n].location = queried_location}
    IN  IF hits = {} THEN 0 ELSE CHOOSE n \in hits : \A k \in hits : n <= k

\* The loop that appends one member per location to struc.
RECURSIVE PerVertexMembers(_, _, _, _)
PerVertexMembers(stage_inputs, count, i, struc) ==
    IF i >= count THEN Some(struc)
    ELSE LET resource == InputForLocation(stage_inputs, i)
         IN  IF resource = 0 THEN None
             ELSE LET vertex_type == VertexTypeFromInputResource(stage_inputs[resource])
                      member == [name |-> vertex_type.variable_name,
                                 type |-> vertex_type.type_name,
                                 byte_length |-> vertex_type.byte_length,
                                 offset |-> struc.byte_length]
                  IN  PerVertexMembers(stage_inputs, count, i + 1,
                          [struc EXCEPT !.byte_length = SizeT(@ + vertex_type.byte_length),
                                        !.members = Append(@, member)])

ReflectPerVertexStructDefinition(stage_inputs) ==
    IF stage_inputs = <<>> THEN None
    ELSE LET locations == CollectLocations(stage_inputs, 1, {})
         IN  IF ~locations.has_value THEN None
             ELSE IF \E i \in 0 .. Cardinality(locations.value) - 1 : i \notin locations.value
             THEN None
             ELSE PerVertexMembers(stage_inputs, Cardinality(locations.value), 0,
                      [name |-> <<"PerVertexData">>, byte_length |-> 0, members |-> <<>>])

EmitStructDefinition(struc) ==
    [name |-> struc.name,
     byte_length |-> struc.byte_length,
     members |-> [n \in 1 .. Len(struc.members) |->
                    [name |-> struc.members[n].name,
                     type |-> struc.members[n].type,
                     offset |-> struc.members[n].offset,
                     byte_length |-> struc.members[n].byte_length]]]

BaseTypeToString(type) ==
    CASE type = "Boolean" -> "ShaderType::kBoolean"
      [] type = "Int" -> "ShaderType::kSignedInt"
      [] type = "UInt" -> "ShaderType::kUnsignedInt"
      [] type = "Float" -> "ShaderType::kFloat"
      [] type = "Double" -> "ShaderType::kDouble"
      [] type = "Struct" -> "ShaderType::kStruct"
      [] type = "SampledImage" -> "ShaderType::kSampledImage"
      [] OTHER -> "ShaderType::kUnknown"

ExecutionModelToString(model) ==
    CASE model = "Vertex" -> "vertex"
      [] model = "Fragment" -> "fragment"
      [] OTHER -> "unsupported"

ReflectType(type) ==
    Some([type_name |-> BaseTypeToString(type.basetype), bit_width |-> type.width,
          vec_size |-> type.vecsize, columns |-> type.columns])

ReflectResource(resource) ==
    LET type == ReflectType(resource.type)
    IN  IF ~type.has_value THEN None
        ELSE Some([name |-> resource.name, location |-> resource.location,
                   type |-> type.value])

RECURSIVE ReflectResourcesFrom(_, _, _)
ReflectResourcesFrom(resources, n, result) ==
    IF n > Len(resources) THEN Some(result)
    ELSE LET reflected == ReflectResource(resources[n])
         IN  IF reflected.has_value
             THEN ReflectResourcesFrom(resources, n + 1, Append(result, reflected.value))
             ELSE None

ReflectResources(resources) == ReflectResourcesFrom(resources, 1, <<>>)

-----------------------------------------------------------------------------
(* ReflectStructDefinition and ReadStructMembers. *)

ReservedIdentifierMarker == "_RESERVED_IDENTIFIER_"

\* struct_name.find("_RESERVED_IDENTIFIER_") != std::string::npos
HasReservedIdentifier(struct_name) ==
    \E n \in 1 .. Len(struct_name) : struct_name[n] = ReservedIdentifierMarker

\* The loop of ReflectStructDefinition that sums the members' raw sizes.
RECURSIVE TotalSize(_)
TotalSize(member_types) ==
    IF member_types = <<>> THEN 0
    ELSE LET member_type == member_types[Len(member_types)]
         IN  SizeT(TotalSize(SubSeq(member_types, 1, Len(member_types) - 1))
                   + (member_type.width * member_type.vecsize * member_type.columns) \div 8)

\* const auto padding = (member.width / 8u) - maybe_known_type.value().byte_size;
ExcessPadding(member, known_type) == SizeT((member.width \div 8) - known_type.byte_size)

\* The cascade of ReadStructMembers' loop body: the type and byte length of the
\* member it emits, and the padding that follows it (0: none).
ClassifyMember(member) ==
    IF member.basetype = "Float" /\ member.width = SizeofScalar * 8
       /\ member.columns = 4 /\ member.vecsize = 4
    THEN [type |-> <<"Matrix">>, byte_length |-> SizeofMatrix, padding |-> 0]
    ELSE IF member.basetype = "Float" /\ member.width = SizeofFloat * 8
            /\ member.columns = 1 /\ member.vecsize = 2
    THEN [type |-> <<"Point">>, byte_length |-> SizeofPoint, padding |-> 0]
    ELSE IF member.basetype = "Float" /\ member.width = SizeofFloat * 8
            /\ member.columns = 1 /\ member.vecsize = 3
    THEN [type |-> <<"Vector3">>, byte_length |-> SizeofVector3, padding |-> 0]
    ELSE IF member.basetype = "Float" /\ member.width = SizeofFloat * 8
            /\ member.columns = 1 /\ member.vecsize = 4
    THEN [type |-> <<"Vector4">>, byte_length |-> SizeofVector4, padding |-> 0]
    ELSE LET maybe_known_type == ReadKnownScalarType(member.basetype)
         IN  IF maybe_known_type.has_value /\ member.columns = 1 /\ member.vecsize = 1
             THEN [type |-> maybe_known_type.value.name,
                   byte_length |-> maybe_known_type.value.byte_size,
                   padding |-> ExcessPadding(member, maybe_known_type.value)]
             ELSE LET byte_length == (member.width * member.columns * member.vecsize) \div 8
                  IN  [type |-> TypeNameWithPaddingOfSize(byte_length),
                       byte_length |-> byte_length, padding |-> 0]

\* GetMemberNameAtIndex: the name it returns when the counter holds id.
GetMemberNameAtIndex(m, parent_type, index, suffix, id) ==
    LET name == GetMemberNameAtIndexIfExists(m, parent_type, index)
    IN  IF name.has_value THEN name.value ELSE UnnamedMemberName(id, suffix)

\* Whether that call reaches sUnnamedMembersID++.
Synthesizes(m, parent_type, index) ==
    ~GetMemberNameAtIndexIfExists(m, parent_type, index).has_value

NoRsm == [type_id |-> 0, name |-> <<>>, byte_length |-> 0, result |-> <<>>,
          total_byte_length |-> 0, i |-> 0, padding |-> 0]

NoRoot == [entrypoint |-> "", shader_name |-> "", shader_stage |-> "",
           header_file_name |-> "", uniform_buffers |-> <<>>, stage_inputs |-> <<>>,
           sampled_images |-> <<>>, stage_outputs |-> <<>>, struct_definitions |-> <<>>]

NoGta == [root |-> NoRoot, known_structs |-> {}, next |-> 1, reflected |-> <<>>,
          visited |-> <<>>]

NoObj == [template_arguments |-> None, reflection_header |-> None,
          reflection_cc |-> None, is_valid |-> FALSE]

NotCalled == [called |-> FALSE, mapping |-> None]
Returned(mapping) == [called |-> TRUE, mapping |-> mapping]
NoGot == [json |-> NotCalled, header |-> NotCalled, cc |-> NotCalled]

-----------------------------------------------------------------------------
(* The constructor and GenerateTemplateArguments, step by step. *)

NoEntrypoints(entrypoints) == Len(entrypoints) = 0

\* entrypoints.size() != 1
IncorrectNumberOfEntrypoints(entrypoints) == Len(entrypoints) # 1

IsKnownStructNever(known_structs, self) == FALSE

\* known_structs.find(type.self) != known_structs.end()
IsKnownStruct(known_structs, self) == self \in known_structs

\* Reflector::Reflector up to the call of GenerateTemplateArguments.
Reflector(t) ==
    /\ pc[t] = "Reflector"
    /\ pc' = [pc EXCEPT ![t] = IF ~module[t].ir \/ ~module[t].compiler
                               THEN "constructed" ELSE "entrypoints"]
    /\ UNCHANGED <<module, lookup, obj, gta, rsm, got, sUnnamedMembersID, synthesized>>

\* The entry point check and root's first four keys.
EntryPoints(t) ==
    /\ pc[t] = "entrypoints"
    /\ LET entrypoints == module[t].entry_points
       IN  IF IncorrectNumberOfEntrypoints(entrypoints)
           THEN /\ pc' = [pc EXCEPT ![t] = "constructed"]
                /\ gta' = gta
           ELSE /\ pc' = [pc EXCEPT ![t] = "uniform_buffers"]
                /\ gta' = [gta EXCEPT ![t].root =
                            [@ EXCEPT !.entrypoint = entrypoints[1].name,
                                      !.shader_name = module[t].options.shader_name,
                                      !.shader_stage =
                                          ExecutionModelToString(entrypoints[1].execution_model),
                                      !.header_file_name = module[t].options.header_file_name]]
    /\ UNCHANGED <<module, lookup, obj, rsm, got, sUnnamedMembersID, synthesized>>

UniformBuffers(t) ==
    /\ pc[t] = "uniform_buffers"
    /\ LET uniform_buffers == ReflectResources(module[t].resources.uniform_buffers)
       IN  IF uniform_buffers.has_value
           THEN /\ pc' = [pc EXCEPT ![t] = "stage_inputs"]
                /\ gta' = [gta EXCEPT ![t].root.uniform_buffers = uniform_buffers.value,
                                      ![t].reflected = Append(@, "uniform_buffers")]
           ELSE /\ pc' = [pc EXCEPT ![t] = "constructed"]
                /\ gta' = [gta EXCEPT ![t].reflected = Append(@, "uniform_buffers")]
    /\ UNCHANGED <<module, lookup, obj, rsm, got, sUnnamedMembersID, synthesized>>

StageInputs(t) ==
    /\ pc[t] = "stage_inputs"
    /\ LET stage_inputs_json == ReflectResources(module[t].resources.stage_inputs)
       IN  IF stage_inputs_json.has_value
           THEN /\ pc' = [pc EXCEPT ![t] = "sampled_images"]
                /\ gta' = [gta EXCEPT ![t].root.stage_inputs = stage_inputs_json.value,
                                      ![t].reflected = Append(@, "stage_inputs")]
           ELSE /\ pc' = [pc EXCEPT ![t] = "constructed"]
                /\ gta' = [gta EXCEPT ![t].reflected = Append(@, "stage_inputs")]
    /\ UNCHANGED <<module, lookup, obj, rsm, got, sUnnamedMembersID, synthesized>>

SampledImages(t) ==
    /\ pc[t] = "sampled_images"
    /\ LET combined_sampled_images == ReflectResources(module[t].resources.sampled_images)
           images == ReflectResources(module[t].resources.separate_images)
           samplers == ReflectResources(module[t].resources.separate_samplers)
           reflected == gta[t].reflected
                        \o <<"sampled_images", "separate_images", "separate_samplers">>
       IN  IF ~combined_sampled_images.has_value \/ ~images.has_value \/ ~samplers.has_value
           THEN /\ pc' = [pc EXCEPT ![t] = "constructed"]
                /\ gta' = [gta EXCEPT ![t].reflected = reflected]
           ELSE /\ pc' = [pc EXCEPT ![t] = "stage_outputs"]
                /\ gta' = [gta EXCEPT ![t].root.sampled_images =
                                          combined_sampled_images.value \o images.value
                                          \o samplers.value,
                                      ![t].reflected = reflected]
    /\ UNCHANGED <<module, lookup, obj, rsm, got, sUnnamedMembersID, synthesized>>

StageOutputs(t) ==
    /\ pc[t] = "stage_outputs"
    /\ LET stage_outputs == ReflectResources(module[t].resources.stage_outputs)
       IN  IF stage_outputs.has_value
           THEN /\ pc' = [pc EXCEPT ![t] = "per_vertex"]
                /\ gta' = [gta EXCEPT ![t].root.stage_outputs = stage_outputs.value,
                                      ![t].reflected = Append(@, "stage_outputs")]
           ELSE /\ pc' = [pc EXCEPT ![t] = "constructed"]
                /\ gta' = [gta EXCEPT ![t].reflected = Append(@, "stage_outputs")]
    /\ UNCHANGED <<module, lookup, obj, rsm, got, sUnnamedMembersID, synthesized>>

\* The vertex stage's PerVertexData, first among struct_definitions.
PerVertexStruct(t) ==
    /\ pc[t] = "per_vertex"
    /\ pc' = [pc EXCEPT ![t] = "typed_ids"]
    /\ LET struc == ReflectPerVertexStructDefinition(module[t].resources.stage_inputs)
       IN  IF module[t].entry_points[1].execution_model = "Vertex" /\ struc.has_value
           THEN gta' = [gta EXCEPT ![t].root.struct_definitions =
                            Append(@, EmitStructDefinition(struc.value))]
           ELSE gta' = gta
    /\ UNCHANGED <<module, lookup, obj, rsm, got, sUnnamedMembersID, synthesized>>

\* One call of the lambda given to for_each_typed_id, with ReflectStructDefinition
\* up to its call of ReadStructMembers.
TypedId(t) ==
    /\ pc[t] = "typed_ids"
    /\ gta[t].next <= Len(module[t].typed_ids)
    /\ LET self == module[t].typed_ids[gta[t].next]
           type == module[t].types[self]
       IN  IF IsKnownStruct(gta[t].known_structs, self)
           THEN /\ gta' = [gta EXCEPT ![t].next = @ + 1]
                /\ UNCHANGED <<pc, rsm>>
           ELSE /\ gta' = [gta EXCEPT ![t].next = @ + 1,
                                      ![t].known_structs = @ \cup {self},
                                      ![t].visited = Append(@, self)]
                /\ IF type.basetype # "Struct" \/ HasReservedIdentifier(type.name)
                   THEN UNCHANGED <<pc, rsm>>
                   ELSE /\ pc' = [pc EXCEPT ![t] = "members"]
                        /\ rsm' = [rsm EXCEPT ![t] =
                                    [NoRsm EXCEPT !.type_id = self,
                                                  !.name = type.name,
                                                  !.byte_length = TotalSize(type.member_types)]]
    /\ UNCHANGED <<module, lookup, obj, got, sUnnamedMembersID, synthesized>>

\* One iteration of ReadStructMembers' loop, up to the padding that may follow
\* a scalar.
ReadStructMembers(t) ==
    /\ pc[t] = "members"
    /\ rsm[t].i < Len(module[t].types[rsm[t].type_id].member_types)
    /\ LET struct_type == module[t].types[rsm[t].type_id]
           i == rsm[t].i
           member == struct_type.member_types[i + 1]
           emitted == ClassifyMember(member)
           name == GetMemberNameAtIndex(module[t], struct_type, i, "", sUnnamedMembersID)
       IN  /\ rsm' = [rsm EXCEPT
                        ![t].result = Append(@, [type |-> emitted.type,
                                                 name |-> name,
                                                 offset |-> rsm[t].total_byte_length,
                                                 byte_length |-> emitted.byte_length]),
                        ![t].total_byte_length = SizeT(@ + emitted.byte_length),
                        ![t].padding = emitted.padding,
                        ![t].i = IF emitted.padding # 0 THEN i ELSE i + 1]
           /\ pc' = [pc EXCEPT ![t] = IF emitted.padding # 0 THEN "padding" ELSE "members"]
           /\ IF Synthesizes(module[t], struct_type, i)
              THEN /\ sUnnamedMembersID' = PostIncrement(sUnnamedMembersID)
                   /\ synthesized' = Append(synthesized, [thread |-> t, name |-> name])
              ELSE UNCHANGED <<sUnnamedMembersID, synthesized>>
    /\ UNCHANGED <<module, lookup, obj, gta, got>>

\* The padding member after a scalar narrower than its declared width.
ExcessPaddingMember(t) ==
    /\ pc[t] = "padding"
    /\ LET struct_type == module[t].types[rsm[t].type_id]
           i == rsm[t].i
           padding == rsm[t].padding
           name == GetMemberNameAtIndex(module[t], struct_type, i, "_pad", sUnnamedMembersID)
       IN  /\ rsm' = [rsm EXCEPT
                        ![t].result = Append(@, [type |-> TypeNameWithPaddingOfSize(padding),
                                                 name |-> name,
                                                 offset |-> rsm[t].total_byte_length,
                                                 byte_length |-> padding]),
                        ![t].total_byte_length = SizeT(@ + padding),
                        ![t].padding = 0,
                        ![t].i = i + 1]
           /\ pc' = [pc EXCEPT ![t] = "members"]
           /\ IF Synthesizes(module[t], struct_type, i)
              THEN /\ sUnnamedMembersID' = PostIncrement(sUnnamedMembersID)
                   /\ synthesized' = Append(synthesized, [thread |-> t, name |-> name])
              ELSE UNCHANGED <<sUnnamedMembersID, synthesized>>
    /\ UNCHANGED <<module, lookup, obj, gta, got>>

\* ReadStructMembers and ReflectStructDefinition return; the lambda emplaces
\* the definition.
ReflectStructDefinition(t) ==
    /\ pc[t] = "members"
    /\ rsm[t].i >= Len(module[t].types[rsm[t].type_id].member_types)
    /\ LET struc == [name |-> rsm[t].name, byte_length |-> rsm[t].byte_length,
                     members |-> rsm[t].result]
       IN  gta' = [gta EXCEPT ![t].root.struct_definitions =
                        Append(@, EmitStructDefinition(struc))]
    /\ pc' = [pc EXCEPT ![t] = "typed_ids"]
    /\ rsm' = [rsm EXCEPT ![t] = NoRsm]
    /\ UNCHANGED <<module, lookup, obj, got, sUnnamedMembersID, synthesized>>

\* GenerateTemplateArguments returns root; the constructor keeps it.
GenerateTemplateArguments(t) ==
    /\ pc[t] = "typed_ids"
    /\ gta[t].next > Len(module[t].typed_ids)
    /\ obj' = [obj EXCEPT ![t].template_arguments = Some(gta[t].root)]
    /\ pc' = [pc EXCEPT ![t] = "header"]
    /\ UNCHANGED <<module, lookup, gta, rsm, got, sUnnamedMembersID, synthesized>>

\* InflateTemplate returns the mapping std::make_shared made, or env.render
\* throws and it returns nothing.
InflateTemplateNull(tmpl, template_arguments, renders) ==
    [threw |-> FALSE,
     mapping |-> IF renders THEN Some([template |-> tmpl, arguments |-> template_arguments])
                 ELSE None]

InflateTemplate(tmpl, template_arguments, renders) ==
    IF renders
    THEN [threw |-> FALSE, mapping |-> Some([template |-> tmpl, arguments |-> template_arguments])]
    ELSE [threw |-> TRUE, mapping |-> None]

GenerateReflectionHeader(t) ==
    /\ pc[t] = "header"
    /\ \E renders \in BOOLEAN :
        LET inflated == InflateTemplate("kReflectionHeaderTemplate",
                                        obj[t].template_arguments.value, renders)
        IN  IF inflated.threw
            THEN /\ pc' = [pc EXCEPT ![t] = "threw"]
                 /\ obj' = [obj EXCEPT ![t] = NoObj]
            ELSE /\ obj' = [obj EXCEPT ![t].reflection_header = inflated.mapping]
                 /\ pc' = [pc EXCEPT ![t] = IF ~inflated.mapping.has_value
                                            THEN "constructed" ELSE "cc"]
    /\ UNCHANGED <<module, lookup, gta, rsm, got, sUnnamedMembersID, synthesized>>

GenerateReflectionCC(t) ==
    /\ pc[t] = "cc"
    /\ \E renders \in BOOLEAN :
        LET inflated == InflateTemplate("kReflectionCCTemplate",
                                        obj[t].template_arguments.value, renders)
        IN  IF inflated.threw
            THEN /\ pc' = [pc EXCEPT ![t] = "threw"]
                 /\ obj' = [obj EXCEPT ![t] = NoObj]
            ELSE /\ obj' = [obj EXCEPT ![t].reflection_cc = inflated.mapping,
                                       ![t].is_valid = inflated.mapping.has_value]
                 /\ pc' = [pc EXCEPT ![t] = "constructed"]
    /\ UNCHANGED <<module, lookup, gta, rsm, got, sUnnamedMembersID, synthesized>>

-----------------------------------------------------------------------------
(* The getters of a constructed Reflector. *)

GetReflectionJSON(t) ==
    /\ pc[t] = "constructed"
    /\ got' = [got EXCEPT ![t].json =
                Returned(IF ~obj[t].is_valid THEN None
                         ELSE Some([dump |-> obj[t].template_arguments.value]))]
    /\ UNCHANGED <<module, lookup, pc, obj, gta, rsm, sUnnamedMembersID, synthesized>>

GetReflectionHeader(t) ==
    /\ pc[t] = "constructed"
    /\ got' = [got EXCEPT ![t].header = Returned(obj[t].reflection_header)]
    /\ UNCHANGED <<module, lookup, pc, obj, gta, rsm, sUnnamedMembersID, synthesized>>

GetReflectionCC(t) ==
    /\ pc[t] = "constructed"
    /\ got' = [got EXCEPT ![t].cc = Returned(obj[t].reflection_cc)]
    /\ UNCHANGED <<module, lookup, pc, obj, gta, rsm, sUnnamedMembersID, synthesized>>

\* GetMemberNameAtIndexIfExists, one frame at a time.  A call is at the top of
\* the function body with parent_type the type it was handed; depth counts the
\* frames on the stack.  The recursive call is the last thing the body does:
\* a build that turns it into a jump (tail_call) reuses the frame, any other
\* build pushes one frame per alias followed.
NoLookup ==
    [pc |-> "idle", parent_type |-> 0, index |-> 0, depth |-> 0, tail_call |-> FALSE,
     result |-> None]

Call(parent_type, index, tail_call) ==
    [pc |-> "call", parent_type |-> parent_type, index |-> index, depth |-> 1,
     tail_call |-> tail_call, result |-> None]

\* if (parent_type.type_alias != 0) return GetMemberNameAtIndexIfExists(
\*     compiler_->get_type(parent_type.type_alias), index);
FollowTypeAlias(t) ==
    LET parent_type == module[t].types[lookup[t].parent_type]
    IN  /\ lookup[t].pc = "call"
        /\ parent_type.type_alias # 0
        /\ lookup[t].tail_call \/ lookup[t].depth < MaxStackDepth
        /\ lookup' = [lookup EXCEPT ![t].parent_type = parent_type.type_alias,
                                    ![t].depth = IF lookup[t].tail_call THEN @ ELSE @ + 1]
        /\ UNCHANGED <<module, pc, obj, gta, rsm, got, sUnnamedMembersID, synthesized>>

\* The recursive call with no room left for its frame: the process dies.
StackOverflow(t) ==
    LET parent_type == module[t].types[lookup[t].parent_type]
    IN  /\ lookup[t].pc = "call"
        /\ parent_type.type_alias # 0
        /\ ~lookup[t].tail_call /\ lookup[t].depth = MaxStackDepth
        /\ lookup' = [lookup EXCEPT ![t].pc = "stack_overflow"]
        /\ UNCHANGED <<module, pc, obj, gta, rsm, got, sUnnamedMembersID, synthesized>>

\* The frame of a type that is no alias: ir_->meta.find(parent_type.self) and the
\* return of its result through every frame below it.
FindMemberAlias(t) ==
    LET parent_type == module[t].types[lookup[t].parent_type]
    IN  /\ lookup[t].pc = "call"
        /\ parent_type.type_alias = 0
        /\ lookup' = [lookup EXCEPT
                ![t].pc = "returned",
                ![t].depth = 0,
                ![t].result = GetMemberNameAtIndexIfExists(module[t], parent_type, lookup[t].index)]
        /\ UNCHANGED <<module, pc, obj, gta, rsm, got, sUnnamedMembersID, synthesized>>

\* The steps of one constructor.
Construct(t) ==
    \/ Reflector(t)
    \/ EntryPoints(t)
    \/ UniformBuffers(t)
    \/ StageInputs(t)
    \/ SampledImages(t)
    \/ StageOutputs(t)
    \/ PerVertexStruct(t)
    \/ TypedId(t)
    \/ ReadStructMembers(t)
    \/ ExcessPaddingMember(t)
    \/ ReflectStructDefinition(t)
    \/ GenerateTemplateArguments(t)
    \/ GenerateReflectionHeader(t)
    \/ GenerateReflectionCC(t)

NextConstruct == \E t \in Threads : Construct(t)

Next ==
    \E t \in Threads :
        \/ Construct(t)
        \/ GetReflectionJSON(t)
        \/ GetReflectionHeader(t)
        \/ GetReflectionCC(t)

\* The steps of one name lookup.
NextLookup ==
    \E t \in Threads :
        \/ FollowTypeAlias(t)
        \/ StackOverflow(t)
        \/ FindMemberAlias(t)

-----------------------------------------------------------------------------
(* The modules the invocations are given. *)

SeqsUpTo(S, n) == UNION {[1 .. k -> S] : k \in 0 .. n}

StructType(self, name, member_types) ==
    [basetype |-> "Struct", width |-> 0, vecsize |-> 1, columns |-> 1, array |-> 0,
     member_types |-> member_types, type_alias |-> 0, self |-> self, name |-> name]

PlainType(self, type) ==
    [basetype |-> type.basetype, width |-> type.width, vecsize |-> type.vecsize,
     columns |-> type.columns, array |-> type.array,
     member_types |-> <<>>, type_alias |-> 0, self |-> self, name |-> <<>>]

Resource(name, location, type) == [name |-> name, location |-> location, type |-> type]

EntryPoint(execution_model) == [name |-> "main", execution_model |-> execution_model]

Float2 == SPIRType("Float", 32, 2, 1, 0)
Float3 == SPIRType("Float", 32, 3, 1, 0)
Float4 == SPIRType("Float", 32, 4, 1, 0)
Float4x4 == SPIRType("Float", 32, 4, 4, 0)
Int4 == SPIRType("Int", 32, 4, 1, 0)
Bool32 == SPIRType("Boolean", 32, 1, 1, 0)
Float32 == SPIRType("Float", 32, 1, 1, 0)
UInt64 == SPIRType("UInt", 64, 1, 1, 0)

Module(ir, compiler, entry_points, stage_inputs, types, meta, typed_ids) ==
    [ir |-> ir, compiler |-> compiler,
     options |-> [shader_name |-> "shader", header_file_name |-> "shader.h"],
     entry_points |-> entry_points,
     resources |->
        [uniform_buffers |-> <<Resource(<<"FrameInfo">>, 0, SPIRType("Struct", 0, 1, 1, 0))>>,
         stage_inputs |-> stage_inputs,
         stage_outputs |-> <<Resource(<<"color">>, 0, Float4)>>,
         sampled_images |-> <<Resource(<<"tex">>, 0, SPIRType("SampledImage", 32, 1, 1, 0))>>,
         separate_images |-> <<>>,
         separate_samplers |-> <<>>],
     types |-> types, meta |-> meta, typed_ids |-> typed_ids]

TwoInputs == <<Resource(<<"uv">>, 1, Float4), Resource(<<"position">>, 0, Float2)>>

\* A module whose types are two reflectable structs, a reserved struct and a vector.
DocTypes ==
    <<StructType(1, <<"FrameInfo">>, <<Float4x4, Bool32>>),
      StructType(2, <<ReservedIdentifierMarker, "FIXUP_gl_PerVertex">>, <<Float4>>),
      PlainType(3, Float4),
      StructType(4, <<"Material">>, <<Float32>>)>>

DocMeta == (1 :> <<<<"mvp">>, <<>>>>) @@ (4 :> <<<<"roughness">>>>)

DocModules ==
    {Module(ir, compiler, entry_points, TwoInputs, DocTypes, DocMeta, typed_ids) :
        ir \in BOOLEAN, compiler \in BOOLEAN,
        entry_points \in SeqsUpTo({EntryPoint("Vertex"), EntryPoint("Fragment")}, 2),
        typed_ids \in SeqsUpTo(DOMAIN DocTypes, MaxTypedIds)}

\* A fragment shader with one struct of any members, none of them named.
LayoutModules ==
    {Module(TRUE, TRUE, <<EntryPoint("Fragment")>>, <<>>,
            <<StructType(1, <<"Uniforms">>, member_types)>>, <<>>, <<1>>) :
        member_types \in SeqsUpTo(MemberTypes, MaxMembers)}

\* A vertex shader with any stage inputs.
InputTypes == {Float2, Float3, Float4, Int4}

VertexModules ==
    {Module(TRUE, TRUE, <<EntryPoint("Vertex")>>,
            [n \in DOMAIN inputs |-> Resource(<<"in", Digit(n)>>, inputs[n][1], inputs[n][2])],
            <<StructType(1, <<"FrameInfo">>, <<Bool32>>)>>, <<>>, <<1>>) :
        inputs \in SeqsUpTo((0 .. MaxInputs - 1) \X InputTypes, MaxInputs)}

\* Shaders whose structs have unnamed members.
NameModules ==
    {Module(TRUE, TRUE, <<EntryPoint("Fragment")>>, <<>>,
            <<StructType(1, <<"Uniforms">>, <<Bool32, UInt64, Bool32>>)>>, meta, <<1>>) :
        meta \in {<<>>, 1 :> <<<<>>, <<"count">>>>}}

\* Struct types whose type_alias is any type of the module or none, the type
\* itself included, with member names declared on some of them.
AliasTypeIds == {1, 2, 3}

AliasedType(self, type_alias) ==
    [StructType(self, <<"Uniforms">>, <<Float32, Float32>>) EXCEPT !.type_alias = type_alias]

AliasMetas ==
    {<<>>,
     3 :> <<<<"color">>, <<>>>>,
     (1 :> <<<<"tint">>>>) @@ (2 :> <<<<>>, <<"scale">>>>)}

AliasModules ==
    {Module(TRUE, TRUE, <<EntryPoint("Fragment")>>, <<>>,
            [self \in AliasTypeIds |-> AliasedType(self, type_alias[self])], meta, <<>>) :
        type_alias \in [AliasTypeIds -> {0} \cup AliasTypeIds], meta \in AliasMetas}

NoModule == Module(FALSE, FALSE, <<>>, <<>>, <<>>, <<>>, <<>>)

InitState ==
    /\ obj = [t \in Threads |-> NoObj]
    /\ gta = [t \in Threads |-> NoGta]
    /\ rsm = [t \in Threads |-> NoRsm]
    /\ got = [t \in Threads |-> NoGot]
    /\ sUnnamedMembersID = 0
    /\ synthesized = <<>>

NoLookups == lookup = [t \in Threads |-> NoLookup]

\* One invocation, on a module of the set.
InitOne(modules) ==
    /\ \E m \in modules : module = [t \in Threads |-> IF t = 1 THEN m ELSE NoModule]
    /\ pc = [t \in Threads |-> IF t = 1 THEN "Reflector" ELSE "unused"]
    /\ InitState
    /\ NoLookups

Init == InitOne(DocModules)
InitLayout == InitOne(LayoutModules)
InitVertex == InitOne(VertexModules)

\* Both invocations at once.
InitNames ==
    /\ module \in [Threads -> NameModules]
    /\ pc = [t \in Threads |-> "Reflector"]
    /\ InitState
    /\ NoLookups

\* One call of GetMemberNameAtIndexIfExists on a type and a member index of a
\* module of AliasModules, in either build.
InitAlias ==
    /\ \E m \in AliasModules : module = [t \in Threads |-> IF t = 1 THEN m ELSE NoModule]
    /\ pc = [t \in Threads |-> "unused"]
    /\ InitState
    /\ \E parent_type \in AliasTypeIds, index \in {0, 1}, tail_call \in BOOLEAN :
            lookup = [t \in Threads |-> IF t = 1 THEN Call(parent_type, index, tail_call)
                                                ELSE NoLookup]

Spec == Init /\ [][Next]_vars
SpecLayout == InitLayout /\ [][NextConstruct]_vars
SpecVertex == InitVertex /\ [][NextConstruct]_vars
SpecNames == InitNames /\ [][NextConstruct]_vars
\* A call that can take a step takes one: the thread keeps running.
SpecAlias == InitAlias /\ [][NextLookup]_vars /\ WF_vars(NextLookup)

-----------------------------------------------------------------------------
(* Properties. *)

StructDefinitions(t) == gta[t].root.struct_definitions

Locations(stage_inputs) == {stage_inputs[n].location : n \in DOMAIN stage_inputs}

\* The constructor is past the per-vertex step of GenerateTemplateArguments.
PerVertexStepDone(t) == pc[t] \in {"typed_ids", "members", "padding", "header", "cc", "constructed", "threw"}

PerVertexData(t) == {n \in DOMAIN StructDefinitions(t) : StructDefinitions(t)[n].name = <<"PerVertexData">>}

\* k >= 1 inputs, no two at one location, the locations exactly 0 .. k-1.
ZeroBasedContiguous(stage_inputs) ==
    /\ Len(stage_inputs) >= 1
    /\ \A i, j \in DOMAIN stage_inputs : i # j => stage_inputs[i].location # stage_inputs[j].location
    /\ Locations(stage_inputs) = 0 .. Len(stage_inputs) - 1

\* C3: the per-vertex struct is synthesized if and only if there is at least one
\* stage input, no two inputs share a location and the locations are exactly
\* 0 .. k-1; an empty list, a gap and a duplicate give no struct.
C3_SynthesisIffZeroBasedContiguous ==
    \A t \in Threads :
        PerVertexStepDone(t) /\ module[t].entry_points[1].execution_model = "Vertex"
        => (PerVertexData(t) # {} <=> ZeroBasedContiguous(module[t].resources.stage_inputs))

C3_Witness ==
    /\ PerVertexStepDone(1)
    /\ Len(module[1].resources.stage_inputs) = 3
    /\ module[1].resources.stage_inputs[1].location = 2
    /\ module[1].resources.stage_inputs[2].location = 0
    /\ module[1].resources.stage_inputs[3].location = 1
    /\ PerVertexData(1) = {1}

\* The host type the claim gives a stage input.
ClaimedVertexTypeName(type) ==
    IF type.basetype = "Float" /\ type.width = 32 /\ type.columns = 1 /\ type.vecsize \in {2, 3, 4}
    THEN <<<<"Point">>, <<"Vector3">>, <<"Vector4">>>>[type.vecsize - 1]
    ELSE <<"Padding", (type.columns * type.vecsize * type.width) \div 8>>

\* C4: a synthesized PerVertexData has one member per stage input, member i being
\* the one input at location i, typed Point / Vector3 / Vector4 for a 32-bit float
\* vector of 2 / 3 / 4 components and padding otherwise, of byte length
\* columns * vecsize * width / 8, at the offset that is the sum of the byte lengths
\* of the members before it.
C4_PerVertexMembersInLocationOrder ==
    \A t \in Threads : \A d \in PerVertexData(t) :
        LET struc == StructDefinitions(t)[d]
            stage_inputs == module[t].resources.stage_inputs
        IN  /\ Len(struc.members) = Len(stage_inputs)
            /\ struc.byte_length = SumLengths(struc.members)
            /\ \A i \in DOMAIN struc.members :
                /\ Cardinality({n \in DOMAIN stage_inputs : stage_inputs[n].location = i - 1}) = 1
                /\ \A n \in DOMAIN stage_inputs :
                     stage_inputs[n].location = i - 1 =>
                        /\ struc.members[i].name = stage_inputs[n].name
                        /\ struc.members[i].type = ClaimedVertexTypeName(stage_inputs[n].type)
                        /\ struc.members[i].byte_length =
                              (stage_inputs[n].type.columns * stage_inputs[n].type.vecsize
                               * stage_inputs[n].type.width) \div 8
                /\ struc.members[i].offset = SumLengths(SubSeq(struc.members, 1, i - 1))

\* Inputs declared as location 1 (float4), then location 0 (float2).
C4_Witness ==
    /\ module[1].resources.stage_inputs =
         <<Resource(<<"in", "1">>, 1, Float4), Resource(<<"in", "2">>, 0, Float2)>>
    /\ PerVertexData(1) = {1}
    /\ StructDefinitions(1)[1] =
         [name |-> <<"PerVertexData">>, byte_length |-> 24,
          members |-> <<[name |-> <<"in", "2">>, type |-> <<"Point">>, offset |-> 0, byte_length |-> 8],
                        [name |-> <<"in", "1">>, type |-> <<"Vector4">>, offset |-> 8, byte_length |-> 16]>>]

\* GenerateTemplateArguments has returned a document.
DocumentBuilt(t) ==
    \/ pc[t] \in {"header", "cc"}
    \/ pc[t] = "constructed" /\ obj[t].template_arguments.has_value

Reflectable(type) == type.basetype = "Struct" /\ ~HasReservedIdentifier(type.name)

DefinitionsOf(t, type) ==
    {n \in DOMAIN StructDefinitions(t) : StructDefinitions(t)[n].name = type.name}

\* C5: whatever sequence of type ids the enumeration yields, no id is reflected
\* twice, and in the built document every reflectable struct id the enumeration
\* yielded has exactly one StructDefinition (an id it did not yield, and a type
\* that is no reflectable struct, has none).
C5_EachStructReflectedOnce ==
    \A t \in Threads :
        /\ \A i, j \in DOMAIN gta[t].visited : i # j => gta[t].visited[i] # gta[t].visited[j]
        /\ \A id \in DOMAIN module[t].types :
            LET type == module[t].types[id]
                yielded == \E n \in DOMAIN module[t].typed_ids : module[t].typed_ids[n] = id
            IN  /\ Cardinality(DefinitionsOf(t, type)) <= 1
                /\ DocumentBuilt(t) =>
                     Cardinality(DefinitionsOf(t, type))
                       = IF Reflectable(type) /\ yielded THEN 1 ELSE 0

C5_Witness ==
    /\ DocumentBuilt(1)
    /\ module[1].typed_ids = <<1, 4, 1>>
    /\ Cardinality(DefinitionsOf(1, module[1].types[1])) = 1
    /\ Cardinality(DefinitionsOf(1, module[1].types[4])) = 1

\* C6: with zero or several entry points the constructor reflects no resource
\* category, visits no type, builds no document and renders no artifact.
C6_NoWorkOnBadEntrypointCount ==
    \A t \in Threads :
        module[t].ir /\ module[t].compiler /\ Len(module[t].entry_points) # 1
        => /\ pc[t] \in {"Reflector", "entrypoints", "constructed"}
           /\ gta[t].reflected = <<>>
           /\ gta[t].visited = <<>>
           /\ gta[t].known_structs = {}
           /\ StructDefinitions(t) = <<>>
           /\ obj[t] = NoObj
           /\ ~got[t].json.mapping.has_value
           /\ ~got[t].header.mapping.has_value
           /\ ~got[t].cc.mapping.has_value

C6_Witness ==
    /\ module[1].ir /\ module[1].compiler
    /\ module[1].entry_points = <<>>
    /\ pc[1] = "constructed"
    /\ got[1].json.called /\ got[1].header.called /\ got[1].cc.called

\* C7: a Reflector that is not valid returns no artifact from any of its three
\* getters, a constructor that did not return leaves no getter to call, and a
\* header or implementation artifact is returned only when the document was
\* built and both renderings succeeded.
C7_NoArtifactUnlessValid ==
    \A t \in Threads :
        /\ pc[t] = "constructed" /\ ~obj[t].is_valid
           => /\ ~got[t].json.mapping.has_value
              /\ ~got[t].header.mapping.has_value
              /\ ~got[t].cc.mapping.has_value
        /\ pc[t] # "constructed" => got[t] = NoGot
        /\ got[t].header.mapping.has_value \/ got[t].cc.mapping.has_value
           => /\ obj[t].template_arguments.has_value
              /\ obj[t].reflection_header.has_value
              /\ obj[t].reflection_cc.has_value

C7_Witness ==
    /\ module[1].ir /\ ~module[1].compiler
    /\ pc[1] = "constructed" /\ ~obj[1].is_valid
    /\ got[1].json.called /\ got[1].header.called /\ got[1].cc.called

\* C8: under every interleaving of the invocations the synthesized names are
\* pairwise distinct, and the counter, never reset, has counted each of them.
C8_SynthesizedNamesDistinct ==
    /\ \A i, j \in DOMAIN synthesized : i # j => synthesized[i].name # synthesized[j].name
    /\ sUnnamedMembersID = Len(synthesized)

\* The invocations took counter values in turn, up to a two-digit one.
C8_Witness ==
    /\ Len(synthesized) >= 11
    /\ \E i, j, k \in DOMAIN synthesized :
        /\ i < j /\ j < k
        /\ synthesized[i].thread = 1 /\ synthesized[j].thread = 2 /\ synthesized[k].thread = 1
    /\ synthesized[11].name = <<"unnamed_", "1", "0">>

-----------------------------------------------------------------------------
(* Properties of the struct layout. *)

\* ReadStructMembers has run its loop to the end and is about to return.
MembersRead(t) ==
    /\ pc[t] = "members"
    /\ rsm[t].i >= Len(module[t].types[rsm[t].type_id].member_types)

MemberTypesRead(t) == module[t].types[rsm[t].type_id].member_types

\* The type and byte length of each emitted member.
Shape(members) ==
    [n \in DOMAIN members |-> [type |-> members[n].type, byte_length |-> members[n].byte_length]]

RECURSIVE Flatten(_)
Flatten(seqs) == IF seqs = <<>> THEN <<>> ELSE seqs[1] \o Flatten(Tail(seqs))

\* C1: every StructDefinition of the document has a byte_length equal to the sum
\* of the byte lengths of its members, padding members included.
C1_ByteLengthIsSumOfMembers ==
    \A t \in Threads : \A n \in DOMAIN StructDefinitions(t) :
        StructDefinitions(t)[n].byte_length = SumLengths(StructDefinitions(t)[n].members)

Contiguous(members) ==
    /\ members # <<>> => members[1].offset = 0
    /\ \A i \in 1 .. Len(members) - 1 :
        members[i].offset + members[i].byte_length = members[i + 1].offset

\* C2: in every member sequence (of ReadStructMembers, while it is built and when
\* it is emitted, and of PerVertexData) the first member is at offset 0 and each
\* member ends where the next begins.
C2_MembersContiguous ==
    \A t \in Threads :
        /\ Contiguous(rsm[t].result)
        /\ \A n \in DOMAIN StructDefinitions(t) : Contiguous(StructDefinitions(t)[n].members)

RecognizedScalar(member) ==
    /\ member.basetype \in {"Boolean", "Float", "UInt", "Int"}
    /\ member.columns = 1
    /\ member.vecsize = 1

\* What the claim has a recognized scalar emit: the scalar and, if and only if
\* its declared width exceeds the host size, padding of the excess.
ClaimedScalarMembers(member) ==
    LET known_type == ReadKnownScalarType(member.basetype).value
        scalar == [type |-> known_type.name, byte_length |-> known_type.byte_size]
        excess == (member.width \div 8) - known_type.byte_size
    IN  IF member.width > known_type.byte_size * 8
        THEN <<scalar, [type |-> <<"Padding", excess>>, byte_length |-> excess]>>
        ELSE <<scalar>>

\* C9: for a struct of recognized scalars, ReadStructMembers returns, member by
\* member, the mapped scalar followed by padding of (width / 8) - host size if
\* and only if the declared width exceeds host size * 8.
C9_PaddingIffWidthExceedsHostSize ==
    \A t \in Threads :
        MembersRead(t) /\ (\A n \in DOMAIN MemberTypesRead(t) : RecognizedScalar(MemberTypesRead(t)[n]))
        => Shape(rsm[t].result)
             = Flatten([n \in DOMAIN MemberTypesRead(t) |-> ClaimedScalarMembers(MemberTypesRead(t)[n])])

\* The claim's classification of a member, first matching rule first; after a
\* scalar, the padding member the source computes.
ClaimedMembers(member) ==
    IF member.basetype = "Float" /\ member.width = 32 /\ member.columns = 4
       /\ member.vecsize = 4 /\ member.array = 0
    THEN <<[type |-> <<"Matrix">>, byte_length |-> SizeofMatrix]>>
    ELSE IF member.basetype = "Float" /\ member.width = 32 /\ member.columns = 1
            /\ member.vecsize = 2
    THEN <<[type |-> <<"Point">>, byte_length |-> SizeofPoint]>>
    ELSE IF member.basetype = "Float" /\ member.width = 32 /\ member.columns = 1
            /\ member.vecsize = 3
    THEN <<[type |-> <<"Vector3">>, byte_length |-> SizeofVector3]>>
    ELSE IF member.basetype = "Float" /\ member.width = 32 /\ member.columns = 1
            /\ member.vecsize = 4
    THEN <<[type |-> <<"Vector4">>, byte_length |-> SizeofVector4]>>
    ELSE IF RecognizedScalar(member)
    THEN LET known_type == ReadKnownScalarType(member.basetype).value
             padding == ExcessPadding(member, known_type)
         IN  <<[type |-> known_type.name, byte_length |-> known_type.byte_size]>>
             \o (IF padding # 0
                 THEN <<[type |-> <<"Padding", padding>>, byte_length |-> padding]>>
                 ELSE <<>>)
    ELSE LET byte_length == (member.width * member.vecsize * member.columns) \div 8
         IN  <<[type |-> <<"Padding", byte_length>>, byte_length |-> byte_length]>>

\* C10: ReadStructMembers classifies each member by the first matching rule:
\* 32-bit float 4x4 matrix with no array dimension -> Matrix; 32-bit float
\* vector of 2 / 3 / 4 components -> Point / Vector3 / Vector4; recognized
\* scalar -> the mapped scalar; anything else -> one padding member; a Matrix,
\* Point, Vector3 or Vector4 is one member of the native size, with no padding
\* member after it.
C10_ClassifiedByFirstMatchingRule ==
    \A t \in Threads :
        MembersRead(t)
        => Shape(rsm[t].result)
             = Flatten([n \in DOMAIN MemberTypesRead(t) |-> ClaimedMembers(MemberTypesRead(t)[n])])

-----------------------------------------------------------------------------
(* The declared-name lookup. *)

\* C11: the declared-member-name lookup terminates on every type-alias chain,
\* a self-referential or cyclic one included: every call returns (a name, or
\* "no name found") instead of looping or recursing forever.
C11_LookupTerminates ==
    \A t \in Threads : lookup[t].pc = "call" ~> lookup[t].pc = "returned"

-----------------------------------------------------------------------------
(* Member names within one struct. *)

\* The member names the module declares for the struct being read.
DeclaredAliases(t) ==
    IF rsm[t].type_id \in DOMAIN module[t].meta THEN module[t].meta[rsm[t].type_id] ELSE <<>>

DeclaredAliasesDistinct(t) ==
    \A i, j \in DOMAIN DeclaredAliases(t) :
        i # j /\ DeclaredAliases(t)[i] # <<>> => DeclaredAliases(t)[i] # DeclaredAliases(t)[j]

\* C12: in a StructDefinition read from a struct whose declared member aliases
\* are pairwise distinct, the emitted member names are pairwise distinct; the
\* padding member after a scalar never has the scalar's name, whether that name
\* is declared or synthesized.
C12_MemberNamesDistinct ==
    \A t \in Threads :
        MembersRead(t) /\ DeclaredAliasesDistinct(t)
        => \A i, j \in DOMAIN rsm[t].result :
              i # j => rsm[t].result[i].name # rsm[t].result[j].name

====
